---- MODULE Spec2Model ----
(***************************************************************************)
(* A model of rsquery's Client (src/src/lib.rs): the RakNet unconnected    *)
(* ping, the GS4 handshake, the Basic-Stat and Full-Stat queries, their    *)
(* decoders, and the UDP socket that the queries of one Client share.      *)
(*                                                                         *)
(* A datagram is a sequence of bytes (0..255).  A Rust String is a         *)
(* sequence of code points.  Byte offsets are 0-based as in the source;    *)
(* TLA+ sequences are 1-based, so byte i of a buffer is element i+1.       *)
(***************************************************************************)
EXTENDS Integers, Sequences, FiniteSets, TLC

(***************************************************************************)
(* Protocol constants.  model/packet.rs is not among the sources; the      *)
(* values are those of the wire formats in the specification (sections 4   *)
(* and 6) and of the GS4 protocol.                                         *)
(***************************************************************************)
MAGIC == 65277

HANDSHAKE == 9

STAT == 0

PLAYER_KEY == <<0, 1, 112, 108, 97, 121, 101, 114, 95, 0, 0>>

\* lib.rs:120, Vec::from_hex("00ffff00fefefefefdfdfdfd12345678")
OfflineMsgData == <<0, 255, 255, 0, 254, 254, 254, 254, 253, 253, 253, 253, 18, 52, 86, 120>>

\* lib.rs:134, [0u8; u16::MAX as usize]
PingBufCap == 65535

\* lib.rs:202 and lib.rs:299, [0u8; u16::MAX as usize]
StatBufCap == 65535

\* lib.rs:345, [0u8; (u16::MAX >> 2) as usize]
TokenBufCap == 16383

\* lib.rs:138, offline_msg_data.len()+19
PongOffset == Len(OfflineMsgData) + 19

\* lib.rs:207, &buf[16..=len]
FullStatOffset == 16

\* lib.rs:303 and lib.rs:349, &buf[5..]
BodyOffset == 5

\* lib.rs:232, data.len()-3
PlayerTrailer == 3

(***************************************************************************)
(* Results of a step: Ok(value), Err(error) returned to the caller, or a   *)
(* panic (expect, unwrap, index out of range, arithmetic overflow).        *)
(***************************************************************************)
Ok(v) == [kind |-> "ok", val |-> v]

Err(k, m) == [kind |-> "err", error |-> k, msg |-> m]

Panic(m) == [kind |-> "panic", msg |-> m]

Min(a, b) == IF a <= b THEN a ELSE b

(***************************************************************************)
(* Byte order.  \div is floor division, so the four bytes of a negative    *)
(* i32 are those of its two's complement.                                  *)
(***************************************************************************)
\* byteorder::WriteBytesExt::write_i32::<BigEndian>
I32BE(n) == << (n \div 16777216) % 256, (n \div 65536) % 256, (n \div 256) % 256, n % 256 >>

\* byteorder::WriteBytesExt::write_u16::<BigEndian>
U16BE(n) == << (n \div 256) % 256, n % 256 >>

\* ses_id & 0x0F0F0F0F: every byte keeps its low nibble
SidMask(sid) ==
    LET b == I32BE(sid)
    IN  (b[1] % 16) * 16777216 + (b[2] % 16) * 65536 + (b[3] % 16) * 256 + (b[4] % 16)

\* the two bytes read in network order
U16BEOf(lo, hi) == lo * 256 + hi

\* byteorder::ReadBytesExt::read_u16::<LittleEndian>
U16LE(lo, hi) == lo + 256 * hi

(***************************************************************************)
(* The receive buffer: a fresh zeroed array of cap bytes into which recv   *)
(* copies the datagram (truncated to cap).  len is what recv returns.      *)
(***************************************************************************)
RecvLen(dg, cap) == Min(Len(dg), cap)

BufByte(dg, cap, i) == IF i < RecvLen(dg, cap) THEN dg[i + 1] ELSE 0

\* &buf[from..to] (to exclusive); the caller has checked from <= to <= cap
BufSlice(dg, cap, from, to) == [k \in 1..(to - from) |-> BufByte(dg, cap, from + k - 1)]

\* whether &buf[from..to] is in range: otherwise the slice expression panics
SliceOk(cap, from, to) == from <= to /\ to <= cap

(***************************************************************************)
(* Strings.  Bytes below 128 are ASCII; the model's inputs hold no byte    *)
(* from 128 up other than ones that never occur in valid UTF-8, so a byte  *)
(* of 128 or more is an invalid sequence of its own.                       *)
(***************************************************************************)
\* String::from_utf8_lossy: an invalid sequence becomes U+FFFD
FromUtf8Lossy(b) == [i \in 1..Len(b) |-> IF b[i] < 128 THEN b[i] ELSE 65533]

\* str::from_utf8(..).is_ok()
Utf8Ok(b) == \A i \in 1..Len(b) : b[i] < 128

IsDigit(c) == c >= 48 /\ c <= 57

AllDigits(s) == \A i \in 1..Len(s) : IsDigit(s[i])

RECURSIVE StripZeros(_)
StripZeros(s) == IF Len(s) > 1 /\ s[1] = 48 THEN StripZeros(Tail(s)) ELSE s

\* s <= m for two digit strings of the same length
RECURSIVE LexLE(_, _)
LexLE(s, m) ==
    IF s = <<>> THEN TRUE
    ELSE IF s[1] < m[1] THEN TRUE
    ELSE IF s[1] > m[1] THEN FALSE
    ELSE LexLE(Tail(s), Tail(m))

\* the number a digit string denotes is at most the one maxd denotes
FitsIn(s, maxd) ==
    LET z == StripZeros(s)
    IN  Len(z) < Len(maxd) \/ (Len(z) = Len(maxd) /\ LexLE(z, maxd))

RECURSIVE NumValAcc(_, _)
NumValAcc(s, acc) == IF s = <<>> THEN acc ELSE NumValAcc(Tail(s), acc * 10 + (s[1] - 48))

NumVal(s) == NumValAcc(s, 0)

RECURSIVE NegValAcc(_, _)
NegValAcc(s, acc) == IF s = <<>> THEN acc ELSE NegValAcc(Tail(s), acc * 10 - (s[1] - 48))

\* decimal digits of i32::MAX, of -i32::MIN, of u16::MAX and of usize::MAX (64 bit)
I32MaxDigits == <<50, 49, 52, 55, 52, 56, 51, 54, 52, 55>>

I32MinDigits == <<50, 49, 52, 55, 52, 56, 51, 54, 52, 56>>

U16MaxDigits == <<54, 53, 53, 51, 53>>

UsizeMaxDigits == <<49, 56, 52, 52, 54, 55, 52, 52, 48, 55, 51, 55, 48, 57, 53, 53, 49, 54, 49, 53>>

\* <i32 as FromStr>::from_str: an optional sign, one digit or more, no overflow
ParseI32(s) ==
    IF s = <<>> THEN [ok |-> FALSE, val |-> 0]
    ELSE LET signed == s[1] = 43 \/ s[1] = 45
             d == IF signed THEN Tail(s) ELSE s
         IN  IF d = <<>> \/ ~AllDigits(d) THEN [ok |-> FALSE, val |-> 0]
             ELSE IF s[1] = 45
                  THEN IF FitsIn(d, I32MinDigits)
                       THEN [ok |-> TRUE, val |-> NegValAcc(d, 0)]
                       ELSE [ok |-> FALSE, val |-> 0]
                  ELSE IF FitsIn(d, I32MaxDigits)
                       THEN [ok |-> TRUE, val |-> NumVal(d)]
                       ELSE [ok |-> FALSE, val |-> 0]

\* the unsigned from_str: an optional '+', one digit or more, no overflow; '-' is no digit
ParseUnsigned(s, maxd) ==
    IF s = <<>> THEN [ok |-> FALSE, val |-> 0]
    ELSE LET d == IF s[1] = 43 THEN Tail(s) ELSE s
         IN  IF d = <<>> \/ ~AllDigits(d) \/ ~FitsIn(d, maxd) THEN [ok |-> FALSE, val |-> 0]
             ELSE [ok |-> TRUE,
                   \* a usize beyond i32::MAX has no value among the checker's integers
                   val |-> IF FitsIn(d, I32MaxDigits) THEN NumVal(d) ELSE -1]

\* <usize as FromStr>::from_str
ParseUsize(s) == ParseUnsigned(s, UsizeMaxDigits)

\* <u16 as FromStr>::from_str
ParseU16(s) == ParseUnsigned(s, U16MaxDigits)

(***************************************************************************)
(* slice::split(|b| b == x): the pieces between separators, as pairs       *)
(* <<from, to>> of 0-based offsets into s (to exclusive).  An empty slice  *)
(* yields one empty piece.                                                 *)
(***************************************************************************)
\* the pieces from the 0-based offset start on: one step for each separator
RECURSIVE SplitSpansFrom(_, _, _)
SplitSpansFrom(s, x, start) ==
    LET seps == {p \in (start + 1)..Len(s) : s[p] = x}
        p0 == CHOOSE p \in seps : \A q \in seps : p <= q
    IN  IF seps = {} THEN << <<start, Len(s)>> >>
        ELSE << <<start, p0 - 1>> >> \o SplitSpansFrom(s, x, p0)

SplitSpans(s, x) == SplitSpansFrom(s, x, 0)

\* the bytes of a piece
Piece(s, span) == SubSeq(s, span[1] + 1, span[2])

\* the pieces at the spans sp
Pieces(s, sp) == [k \in 1..Len(sp) |-> Piece(s, sp[k])]

Split(s, x) == Pieces(s, SplitSpans(s, x))

\* Option<T>: None is the empty sequence, Some(v) the sequence of v alone
None == <<>>

Some(v) == <<v>>

(***************************************************************************)
(* raknet_ping's decoding of the datagram it received (lib.rs:134-158).    *)
(***************************************************************************)
IndexPanic == Panic("index out of bounds")

UnwrapPanic == Panic("called unwrap on an Err value")

SlicePanic == Panic("slice index out of range")

OverflowPanic == Panic("attempt to subtract with overflow")

\* the exclusive end of &buf[offline_msg_data.len()+19..=len]
PongSliceEnd(len) == len + 1

\* lib.rs:138-139: the pong's text, split on ';'
PongFields(dg) ==
    Split(FromUtf8Lossy(BufSlice(dg, PingBufCap, PongOffset,
                                 PongSliceEnd(RecvLen(dg, PingBufCap)))), 59)

\* a record that takes the second motd line and the game mode only from nine fields on,
\* and is made of eight fields as of seven
PongRecordOfEight(data) ==
    LET n == Len(data)
        pv == ParseUsize(data[3])
        cnt == ParseUsize(data[5])
        mc == ParseUsize(data[6])
    IN  IF n < 3 THEN IndexPanic
        ELSE IF ~pv.ok THEN UnwrapPanic
        ELSE IF n < 5 THEN IndexPanic
        ELSE IF ~cnt.ok THEN UnwrapPanic
        ELSE IF n < 6 THEN IndexPanic
        ELSE IF ~mc.ok THEN UnwrapPanic
        ELSE IF n < 7 THEN IndexPanic
        ELSE Ok([game_edition |-> data[1],
                 motd |-> IF n > 8 THEN <<data[2], data[8]>> ELSE <<data[2]>>,
                 protocol_version |-> pv.val,
                 game_version |-> data[4],
                 player_count |-> cnt.val,
                 max_player_count |-> mc.val,
                 server_uid |-> data[7],
                 game_mode |-> IF n > 8 THEN Some(data[9]) ELSE None,
                 game_mode_integer |-> None,
                 port |-> None,
                 port_v6 |-> None])

\* lib.rs:140-158, given the fields
PongRecord(data) ==
    LET n == Len(data)
        pv == ParseUsize(data[3])
        cnt == ParseUsize(data[5])
        mc == ParseUsize(data[6])
    IN  IF n < 2 THEN IndexPanic
        ELSE IF n > 7 /\ n < 9 THEN IndexPanic
        ELSE IF n < 3 THEN IndexPanic
        ELSE IF ~pv.ok THEN UnwrapPanic
        ELSE IF n < 5 THEN IndexPanic
        ELSE IF ~cnt.ok THEN UnwrapPanic
        ELSE IF n < 6 THEN IndexPanic
        ELSE IF ~mc.ok THEN UnwrapPanic
        ELSE IF n < 7 THEN IndexPanic
        ELSE Ok([game_edition |-> data[1],
                 motd |-> IF n > 7 THEN <<data[2], data[8]>> ELSE <<data[2]>>,
                 protocol_version |-> pv.val,
                 game_version |-> data[4],
                 player_count |-> cnt.val,
                 max_player_count |-> mc.val,
                 server_uid |-> data[7],
                 game_mode |-> IF n > 7 THEN Some(data[9]) ELSE None,
                 game_mode_integer |-> None,
                 port |-> None,
                 port_v6 |-> None])

DecodePong(dg) ==
    IF ~SliceOk(PingBufCap, PongOffset, PongSliceEnd(RecvLen(dg, PingBufCap)))
    THEN SlicePanic
    ELSE PongRecord(PongFields(dg))

(***************************************************************************)
(* gen_challenge_token's decoding of the handshake response                *)
(* (lib.rs:345-352).                                                       *)
(***************************************************************************)
MismatchHandshake ==
    Err("InvalidData", "Wrong packet received perhaps an already opened session? (expected 0x01 Handshake)")

\* a handshake response taken only when the four bytes after its type are zero
IsHandshakeEchoZero(dg) ==
    BufByte(dg, TokenBufCap, 0) = HANDSHAKE /\ \A i \in 1..4 : BufByte(dg, TokenBufCap, i) = 0

\* match buf[0] { packet::HANDSHAKE => .. }
IsHandshake(dg) == BufByte(dg, TokenBufCap, 0) = HANDSHAKE

\* a token text that keeps the byte before which it should end
ChallengeTextToEnd(dg) ==
    FromUtf8Lossy(BufSlice(dg, TokenBufCap, BodyOffset, RecvLen(dg, TokenBufCap)))

\* String::from_utf8_lossy(&buf[5..len-1]).parse().expect(..)
ChallengeText(dg) ==
    FromUtf8Lossy(BufSlice(dg, TokenBufCap, BodyOffset, RecvLen(dg, TokenBufCap) - 1))

DecodeChallenge(dg) ==
    LET len == RecvLen(dg, TokenBufCap)
    IN  IF ~IsHandshake(dg) THEN MismatchHandshake
        ELSE IF len = 0 THEN OverflowPanic
        ELSE IF ~SliceOk(TokenBufCap, BodyOffset, len - 1) THEN SlicePanic
        ELSE IF ~ParseI32(ChallengeText(dg)).ok THEN Panic("Invalid Challenge Token Received")
        ELSE Ok(ParseI32(ChallengeText(dg)).val)

(***************************************************************************)
(* short_query's decoding of the stat response (lib.rs:299-322) and        *)
(* utils::read_nulltermed_str (utils/mod.rs:15-19).                        *)
(***************************************************************************)
MismatchStat ==
    Err("InvalidData", "Unexpected packet was received while awaiting 0x00 STAT")

\* match buf[0] { packet::STAT => .. } in short_query
IsStatShort(dg) == BufByte(dg, StatBufCap, 0) = STAT

\* the offset of the first 0x00 of b at or after pos, Len(b) when there is none
NulAt(b, pos) ==
    LET nuls == {i \in pos..(Len(b) - 1) : b[i + 1] = 0}
    IN  IF nuls = {} THEN Len(b) ELSE CHOOSE i \in nuls : \A j \in nuls : i <= j

\* read_until(0x00, &mut temp) from the cursor at pos, then temp[0..temp.len()-1]:
\* temp ends with the delimiter, or at the end of the input when there is none;
\* an empty temp makes temp.len()-1 panic
read_nulltermed_str(b, pos) ==
    LET e == NulAt(b, pos)
        next == IF e < Len(b) THEN e + 1 ELSE Len(b)
    IN  [empty |-> next = pos,
         str |-> FromUtf8Lossy(SubSeq(b, pos + 1, next - 1)),
         pos |-> next]

\* lib.rs:303-319 on the cursor's bytes b = &buf[5..len]
BasicRecord(b) ==
    LET r1 == read_nulltermed_str(b, 0)
        r2 == read_nulltermed_str(b, r1.pos)
        r3 == read_nulltermed_str(b, r2.pos)
        r4 == read_nulltermed_str(b, r3.pos)
        p4 == ParseUsize(r4.str)
        r5 == read_nulltermed_str(b, r4.pos)
        p5 == ParseUsize(r5.str)
        r6 == read_nulltermed_str(b, r5.pos + 2)
    IN  IF r1.empty \/ r2.empty \/ r3.empty \/ r4.empty THEN OverflowPanic
        ELSE IF ~p4.ok THEN UnwrapPanic
        ELSE IF r5.empty THEN OverflowPanic
        ELSE IF ~p5.ok THEN UnwrapPanic
        ELSE IF Len(b) - r5.pos < 2 THEN Err("UnexpectedEof", "failed to fill whole buffer")
        ELSE IF r6.empty THEN OverflowPanic
        ELSE Ok([motd |-> r1.str,
                 gametype |-> r2.str,
                 map |-> r3.str,
                 players |-> p4.val,
                 max_players |-> p5.val,
                 host_port |-> U16LE(b[r5.pos + 1], b[r5.pos + 2]),
                 host_ip |-> r6.str])

DecodeBasicStat(dg) ==
    LET len == RecvLen(dg, StatBufCap)
    IN  IF ~IsStatShort(dg) THEN MismatchStat
        ELSE IF ~SliceOk(StatBufCap, BodyOffset, len) THEN SlicePanic
        ELSE BasicRecord(BufSlice(dg, StatBufCap, BodyOffset, len))

(***************************************************************************)
(* long_query's decoding of the stat response (lib.rs:202-258) and         *)
(* utils::slice_index (utils/mod.rs:4-13).                                 *)
(***************************************************************************)
\* a long_query that takes any packet for a Stat response
IsStatLongAny(dg) == TRUE

\* match buf[0] { packet::STAT => .. } in long_query
IsStatLong(dg) == BufByte(dg, StatBufCap, 0) = STAT

\* buf.len() - needle.len() underflows when the needle is longer than buf
SliceIndexPanics(buf, needle) == Len(buf) < Len(needle)

\* the first i of 0..=buf.len()-needle.len() at which buf[i..] starts with needle
slice_index(buf, needle) ==
    LET hits == {i \in 0..(Len(buf) - Len(needle)) :
                    SubSeq(buf, i + 1, i + Len(needle)) = needle}
    IN  IF hits = {} THEN None ELSE Some(CHOOSE i \in hits : \A j \in hits : i <= j)

\* lib.rs:207, data = &buf[16..=len]
FullData(dg) ==
    BufSlice(dg, StatBufCap, FullStatOffset, RecvLen(dg, StatBufCap) + 1)

\* a key/value region that is never narrowed to the marker
RegEndWhole(data, pi) == Len(data)

\* lib.rs:208-214, reg_data = &data[0..RegEnd): &data[0..=pi] when the marker is at pi
RegEnd(data, pi) == IF pi # None THEN pi[1] + 1 ELSE Len(data)

\* lib.rs:216-219: the pieces of reg_data, the last one dropped when their number is odd
KvArr(data, pi) ==
    LET arr == SplitSpans(SubSeq(data, 1, RegEnd(data, pi)), 0)
    IN  IF Len(arr) % 2 # 0 THEN SubSeq(arr, 1, Len(arr) - 1) ELSE arr

\* lib.rs:220-227: the first key or value that is not UTF-8 makes its expect panic
RECURSIVE KvPanicFrom(_, _, _)
KvPanicFrom(data, arr, k) ==
    IF k > Len(arr) THEN None
    ELSE IF ~Utf8Ok(Piece(data, arr[k]))
         THEN Some(Panic(IF k % 2 = 1 THEN "Unable to decode key string"
                                      ELSE "Unable to decode value string"))
    ELSE KvPanicFrom(data, arr, k + 1)

\* the map after insert(keys[1], vals[1]), insert(keys[2], vals[2]), ...: a later
\* insert replaces an earlier one of the same key
MapOf(keys, vals) ==
    [k \in {keys[j] : j \in DOMAIN keys} |->
        vals[CHOOSE j \in DOMAIN keys :
                keys[j] = k /\ \A h \in DOMAIN keys : h > j => keys[h] # k]]

\* lib.rs:221-227: raw_data after the loop
KvMap(data, arr) ==
    MapOf([j \in 1..(Len(arr) \div 2) |-> Piece(data, arr[2 * j - 1])],
          [j \in 1..(Len(arr) \div 2) |-> Piece(data, arr[2 * j])])

\* lib.rs:232, tmp = &data[from..to), for the marker at pi
PlayerRange(data, pi) == <<pi[1] + Len(PLAYER_KEY), Len(data) - PlayerTrailer>>

\* lib.rs:233: the pieces of tmp, as offsets into data
PlayerSpans(data, pi) ==
    LET r == PlayerRange(data, pi)
        sp == SplitSpans(SubSeq(data, r[1] + 1, r[2]), 0)
    IN  [k \in 1..Len(sp) |-> <<sp[k][1] + r[1], sp[k][2] + r[1]>>]

\* lib.rs:230-237: task b's outcome, the player list
PlayerList(data, pi) ==
    IF pi = None THEN Ok(<<>>)
    ELSE LET r == PlayerRange(data, pi)
         IN  IF ~(r[1] <= r[2] /\ r[2] <= Len(data)) THEN SlicePanic
             ELSE LET sp == PlayerSpans(data, pi)
                  IN  IF \E k \in 1..Len(sp) : ~Utf8Ok(Piece(data, sp[k]))
                      THEN Panic("Failure decoding string!")
                      ELSE Ok([k \in 1..Len(sp) |-> Piece(data, sp[k])])

\* lib.rs:241-255: the fields of LongQuery in the order they are built, each with the
\* key it reads, the message of its expect, and the parse that follows the lookup
FullFields == <<
    [field |-> "server_software", name |-> "server_engine",
     key |-> <<115, 101, 114, 118, 101, 114, 95, 101, 110, 103, 105, 110, 101>>,
     expect |-> "Failed to find server_engine", parse |-> "none", perr |-> ""],
    [field |-> "plugins", name |-> "plugins",
     key |-> <<112, 108, 117, 103, 105, 110, 115>>,
     expect |-> "Failed to find plugins", parse |-> "none", perr |-> ""],
    [field |-> "version", name |-> "version",
     key |-> <<118, 101, 114, 115, 105, 111, 110>>,
     expect |-> "Failed to find version", parse |-> "none", perr |-> ""],
    [field |-> "whitelist", name |-> "whitelist",
     key |-> <<119, 104, 105, 116, 101, 108, 105, 115, 116>>,
     expect |-> "Failed to find whitelist", parse |-> "none", perr |-> ""],
    [field |-> "player_count", name |-> "numplayers",
     key |-> <<110, 117, 109, 112, 108, 97, 121, 101, 114, 115>>,
     expect |-> "Failed to find numplayers", parse |-> "usize",
     perr |-> "Invalid Player Count!"],
    [field |-> "max_players", name |-> "maxplayers",
     key |-> <<109, 97, 120, 112, 108, 97, 121, 101, 114, 115>>,
     expect |-> "Failed to find maxplayers", parse |-> "usize",
     perr |-> "Invalid Max Player Count!"],
    [field |-> "game_name", name |-> "game_id",
     key |-> <<103, 97, 109, 101, 95, 105, 100>>,
     expect |-> "Failed to find gamename", parse |-> "none", perr |-> ""],
    [field |-> "game_mode", name |-> "gametype",
     key |-> <<103, 97, 109, 101, 116, 121, 112, 101>>,
     expect |-> "Failed to find gametype", parse |-> "none", perr |-> ""],
    [field |-> "map_name", name |-> "map",
     key |-> <<109, 97, 112>>,
     expect |-> "Failed to find map", parse |-> "none", perr |-> ""],
    [field |-> "host_name", name |-> "hostname",
     key |-> <<104, 111, 115, 116, 110, 97, 109, 101>>,
     expect |-> "Failed to find server_engine", parse |-> "none", perr |-> ""],
    [field |-> "host_ip", name |-> "hostip",
     key |-> <<104, 111, 115, 116, 105, 112>>,
     expect |-> "Failed to find hostip", parse |-> "none", perr |-> ""],
    [field |-> "host_port", name |-> "hostport",
     key |-> <<104, 111, 115, 116, 112, 111, 114, 116>>,
     expect |-> "Failed to find server_engine", parse |-> "u16",
     perr |-> "Invalid Host Port!"] >>

\* a field whose key may be missing when it is server_engine or whitelist
FieldValueLenient(map, f) ==
    IF f.key \notin DOMAIN map
    THEN IF f.name \in {"server_engine", "whitelist"} THEN Ok(<<>>) ELSE Panic(f.expect)
    ELSE IF f.parse = "usize"
         THEN IF ParseUsize(map[f.key]).ok THEN Ok(ParseUsize(map[f.key]).val)
                                            ELSE Panic(f.perr)
    ELSE IF f.parse = "u16"
         THEN IF ParseU16(map[f.key]).ok THEN Ok(ParseU16(map[f.key]).val)
                                          ELSE Panic(f.perr)
    ELSE Ok(map[f.key])

\* the value of one field: reader.get(key).expect(..) and then clone() or parse().expect(..)
FieldValue(map, f) ==
    IF f.key \notin DOMAIN map THEN Panic(f.expect)
    ELSE IF f.parse = "usize"
         THEN IF ParseUsize(map[f.key]).ok THEN Ok(ParseUsize(map[f.key]).val)
                                            ELSE Panic(f.perr)
    ELSE IF f.parse = "u16"
         THEN IF ParseU16(map[f.key]).ok THEN Ok(ParseU16(map[f.key]).val)
                                          ELSE Panic(f.perr)
    ELSE Ok(map[f.key])

\* lib.rs:241-255: the record, or the panic of the first field that fails
AssembleLong(map, players) ==
    LET bad == {i \in 1..Len(FullFields) : FieldValue(map, FullFields[i]).kind # "ok"}
        i0 == CHOOSE i \in bad : \A j \in bad : i <= j
        fi(n) == CHOOSE i \in 1..Len(FullFields) : FullFields[i].field = n
    IN  IF bad # {} THEN FieldValue(map, FullFields[i0])
        ELSE Ok([n \in {FullFields[i].field : i \in 1..Len(FullFields)} \cup {"players"} |->
                    IF n = "players" THEN players
                    ELSE FieldValue(map, FullFields[fi(n)]).val])

\* lib.rs:209-255 on data: task a (the map), task b (the players), then the record
FullRecord(data) ==
    IF SliceIndexPanics(data, PLAYER_KEY) THEN OverflowPanic
    ELSE LET pi == slice_index(data, PLAYER_KEY)
             arr == KvArr(data, pi)
             pl == PlayerList(data, pi)
         IN  IF KvPanicFrom(data, arr, 1) # None THEN KvPanicFrom(data, arr, 1)[1]
             ELSE IF pl.kind # "ok" THEN pl
             ELSE AssembleLong(KvMap(data, arr), pl.val)

DecodeFullStat(dg) ==
    LET len == RecvLen(dg, StatBufCap)
    IN  IF ~IsStatLong(dg) THEN MismatchStat
        ELSE IF ~SliceOk(StatBufCap, FullStatOffset, len + 1) THEN SlicePanic
        ELSE FullRecord(FullData(dg))

(***************************************************************************)
(* The requests (lib.rs:123-131, 186-199, 285-296, 333-341).               *)
(***************************************************************************)
\* lib.rs:123-129; the timestamp and the client id are eight bytes each
PingRequest(ts, cid) == <<1>> \o ts \o OfflineMsgData \o cid

\* lib.rs:333-339
HandshakeRequest(s) == U16BE(MAGIC) \o <<HANDSHAKE>> \o I32BE(SidMask(s))

\* lib.rs:286-294
ShortStatRequest(s, tok) == U16BE(MAGIC) \o <<STAT>> \o I32BE(SidMask(s)) \o I32BE(tok)

\* a Full-Stat request without the padding
LongStatRequestBare(s, tok) == U16BE(MAGIC) \o <<STAT>> \o I32BE(SidMask(s)) \o I32BE(tok)

\* lib.rs:187-197
LongStatRequest(s, tok) ==
    U16BE(MAGIC) \o <<STAT>> \o I32BE(SidMask(s)) \o I32BE(tok) \o <<0, 0, 0, 0>>

(***************************************************************************)
(* The Client and its callers.  The tasks of Tasks hold the same Client    *)
(* (socket: Arc<UdpSocket>, lib.rs:40-43) and call its queries, each task  *)
(* one call at a time; every await of a call (send_to, recv) is a step.    *)
(* The server and the network are the environment: every request that was *)
(* sent may be answered by any datagram, in any order.                     *)
(***************************************************************************)
Tasks == {1, 2}

\* the queries a caller makes one after the other on its Client
MaxCalls == 2

\* the session ids random.gen() yields, call after call: 0x12345678, -1, i32::MAX
SidStream == <<305419896, -1, 2147483647>>

\* let ses_id: i32 = random.gen() in the call numbered c (lib.rs:183, 283)
NewSid(c) == SidStream[((c - 1) % Len(SidStream)) + 1]

\* SystemTime::now() in milliseconds and random.gen::<u64>(), big-endian
PingTime == <<0, 0, 1, 147, 0, 0, 0, 1>>

PingClientId == <<1, 2, 3, 4, 5, 6, 7, 8>>

Terminal == {"idle", "done", "failed", "panicked"}

VARIABLES pc, kind, sid, token, result, log, prev, shared, stale, cur, calls, left, net, inbox,
          dec, din, dout, ja, jb, jraw, jplayers, jarr, jtmp

vars == <<pc, kind, sid, token, result, log, prev, shared, stale, cur, calls, left, net, inbox,
          dec, din, dout, ja, jb, jraw, jplayers, jarr, jtmp>>

clientVars ==
    <<pc, kind, sid, token, result, log, prev, shared, stale, cur, calls, left, net, inbox>>

decodeVars == <<dec, din, dout>>

joinVars == <<ja, jb, jraw, jplayers, jarr, jtmp>>

\* a handshake whose failure is ignored
AfterHandshakeIgnored(o) == "challenge"

\* the ? after a step: Ok goes on, Err returns to the caller, a panic unwinds
AfterHandshake(o) ==
    IF o.kind = "ok" THEN "challenge" ELSE IF o.kind = "err" THEN "failed" ELSE "panicked"

\* a query that sends its request again when the response does not decode
AfterDecodeRetry(o) == IF o.kind = "ok" THEN "done" ELSE "challenge"

AfterDecode(o) ==
    IF o.kind = "ok" THEN "done" ELSE IF o.kind = "err" THEN "failed" ELSE "panicked"

\* a stat query that goes on to its next request when recv fails
AfterRecvErrorGoOn(k) == IF k = "ping" THEN "failed" ELSE "challenge"

\* recv(&mut buf).await? when recv fails
AfterRecvError(k) == "failed"

TransportError == Err("Io", "transport failure")

Sent(t) == Len(SelectSeq(log[t], LAMBDA e : e.op = "send"))

\* the request a send of a call puts on the wire: req names the call and its step
Request(c, n, pkt) == [req |-> <<c, n>>, pkt |-> pkt]

\* what a call did: its sends and receives in order, each with whether it returned Ok,
\* the datagram, and the request the datagram is or answers
SendEvent(c, n, pkt, ok) == [op |-> "send", ok |-> ok, pkt |-> pkt, req |-> <<c, n>>]

RecvEvent(m) == [op |-> "recv", ok |-> TRUE, pkt |-> m.dg, req |-> m.req]

RecvErrorEvent == [op |-> "recv", ok |-> FALSE, pkt |-> <<>>, req |-> <<0, 0>>]

\* some other task is inside a call
Busy(t) == \E u \in Tasks \ {t} : pc[u] \notin Terminal

\* a request or a response of an earlier call is still on its way to or in the socket
Pending == net # {} \/ inbox # <<>>

(***************************************************************************)
(* The datagrams of the server.                                            *)
(***************************************************************************)
\* a handshake response: type, session id echo, the token's text, a null
HsReply(text) == <<9, 0, 0, 0, 0>> \o text \o <<0>>

\* a Basic-Stat response: m, t, w, 5 players of 20, port bytes 4A BC, host h
BasicReply ==
    <<0, 0, 0, 0, 0>> \o <<109, 0, 116, 0, 119, 0, 53, 0, 50, 48, 0, 74, 188, 104, 0>>

\* the 16 bytes before the key/value section: type, session id, "splitnum", 00 80 00
FullHeader == <<0, 0, 0, 0, 0, 115, 112, 108, 105, 116, 110, 117, 109, 0, 128, 0>>

\* key 00 value 00 for every field of FullFields but those at the indices of skip;
\* the value of a parsed field is "7", of another field "v"
RECURSIVE KvSection(_, _)
KvSection(i, skip) ==
    IF i > Len(FullFields) THEN <<>>
    ELSE (IF i \in skip THEN <<>>
          ELSE FullFields[i].key \o <<0>>
               \o (IF FullFields[i].parse = "none" THEN <<118>> ELSE <<55>>) \o <<0>>)
         \o KvSection(i + 1, skip)

\* a Full-Stat response with the players a and bc
FullReply(skip) ==
    FullHeader \o KvSection(1, skip) \o PLAYER_KEY \o <<97, 0, 98, 99, 0, 0>>

\* an unconnected pong: id, time, guid, magic, text length, then the text fields
PongPrefix == <<28>> \o PingTime \o PingClientId \o OfflineMsgData \o <<0, 0>>

\* MCPE;m;422;1.18;5;20;77
PongReply7 ==
    PongPrefix \o <<77, 67, 80, 69, 59, 109, 59, 52, 50, 50, 59, 49, 46, 49, 56, 59,
                    53, 59, 50, 48, 59, 55, 55>>

\* what the server may answer to a request, by the request's type byte
Replies(pkt) ==
    IF pkt[1] = 1 THEN {PongReply7, PongPrefix}
    ELSE IF pkt[3] = HANDSHAKE
         THEN {HsReply(<<52, 50>>), HsReply(<<45, 55>>), HsReply(<<120>>), BasicReply}
    ELSE IF Len(pkt) = 11 THEN {BasicReply, HsReply(<<52, 50>>)}
    ELSE {FullReply({}), HsReply(<<52, 50>>)}

(***************************************************************************)
(* The state after Client::new, before any query.                          *)
(***************************************************************************)
Fresh ==
    /\ pc = [t \in Tasks |-> "idle"]
    /\ kind = [t \in Tasks |-> "none"]
    /\ sid = [t \in Tasks |-> 0]
    /\ token = [t \in Tasks |-> 0]
    /\ result = [t \in Tasks |-> None]
    /\ log = [t \in Tasks |-> <<>>]
    /\ shared = [t \in Tasks |-> FALSE]
    /\ stale = [t \in Tasks |-> FALSE]
    /\ cur = [t \in Tasks |-> 0]
    /\ prev = {}
    /\ calls = 0
    /\ net = {}
    /\ inbox = <<>>

\* the two tasks of a Full-Stat decode, before they are made
JoinIdle ==
    ja = 0 /\ jb = "none" /\ jraw = <<>> /\ jplayers = <<>> /\ jarr = None /\ jtmp = None

DecodeIdle == dec = "none" /\ din = <<>> /\ dout = None /\ JoinIdle

\* two callers share the Client and issue one query each, at any time
Init == Fresh /\ left = [t \in Tasks |-> 1] /\ DecodeIdle

\* one caller issues MaxCalls queries on the Client, one after the other
SeqInit == Fresh /\ left = [t \in Tasks |-> IF t = 1 THEN MaxCalls ELSE 0] /\ DecodeIdle

\* a task enters a query and reaches the query's first send_to: the send returns Ok
\* and the request is on the wire, or it returns Err and the ? ends the call
Begin(t, k, s, pkt, sentpc) ==
    /\ pc[t] \in Terminal
    /\ left[t] > 0
    /\ left' = [left EXCEPT ![t] = @ - 1]
    /\ calls' = calls + 1
    /\ cur' = [cur EXCEPT ![t] = calls + 1]
    /\ kind' = [kind EXCEPT ![t] = k]
    /\ sid' = [sid EXCEPT ![t] = s]
    /\ token' = [token EXCEPT ![t] = 0]
    /\ shared' = [u \in Tasks |-> IF u = t THEN Busy(t)
                                  ELSE shared[u] \/ pc[u] \notin Terminal]
    /\ stale' = [stale EXCEPT ![t] = Pending]
    /\ \/ /\ pc' = [pc EXCEPT ![t] = sentpc]
          /\ result' = [result EXCEPT ![t] = None]
          /\ log' = [log EXCEPT ![t] = <<SendEvent(calls + 1, 1, pkt, TRUE)>>]
          /\ net' = net \cup {Request(calls + 1, 1, pkt)}
       \/ /\ pc' = [pc EXCEPT ![t] = "failed"]
          /\ result' = [result EXCEPT ![t] = Some(TransportError)]
          /\ log' = [log EXCEPT ![t] = <<SendEvent(calls + 1, 1, pkt, FALSE)>>]
          /\ net' = net
    /\ UNCHANGED <<prev, inbox, dec, din, dout, ja, jb, jraw, jplayers, jarr, jtmp>>

\* raknet_ping up to its send_to (lib.rs:117-132)
CallPing(t) == Begin(t, "ping", 0, PingRequest(PingTime, PingClientId), "ping_sent")

\* short_query up to the send_to of gen_challenge_token (lib.rs:281-284, 332-341)
CallShort(t) ==
    Begin(t, "short", NewSid(calls + 1), HandshakeRequest(NewSid(calls + 1)), "hs_sent")

\* long_query up to the send_to of gen_challenge_token (lib.rs:181-184, 332-341)
CallLong(t) ==
    Begin(t, "long", NewSid(calls + 1), HandshakeRequest(NewSid(calls + 1)), "hs_sent")

\* a receive that reads the oldest datagram and leaves it in the socket
TakePeek(t, o, nextpc) ==
    /\ inbox' = inbox
    /\ log' = [log EXCEPT ![t] = Append(@, RecvEvent(Head(inbox)))]
    /\ pc' = [pc EXCEPT ![t] = nextpc]
    /\ result' = [result EXCEPT ![t] = IF nextpc = "challenge" THEN None ELSE Some(o)]

\* socket.recv returns the oldest datagram of the socket to the task that awaits it
Take(t, o, nextpc) ==
    /\ inbox' = Tail(inbox)
    /\ log' = [log EXCEPT ![t] = Append(@, RecvEvent(Head(inbox)))]
    /\ pc' = [pc EXCEPT ![t] = nextpc]
    /\ result' = [result EXCEPT ![t] = IF nextpc = "challenge" THEN None ELSE Some(o)]

\* raknet_ping from its recv to its return (lib.rs:134-158)
RecvPong(t) ==
    /\ pc[t] = "ping_sent"
    /\ inbox # <<>>
    /\ LET o == DecodePong(Head(inbox).dg)
       IN  Take(t, o, AfterDecode(o))
    /\ UNCHANGED <<kind, sid, token, prev, shared, stale, cur, calls, left, net, dec, din, dout, ja, jb, jraw, jplayers, jarr, jtmp>>

\* gen_challenge_token from its recv to its return, and the ? of its caller
\* (lib.rs:345-352, 184, 284)
RecvChallenge(t) ==
    /\ pc[t] = "hs_sent"
    /\ inbox # <<>>
    /\ LET o == DecodeChallenge(Head(inbox).dg)
       IN  /\ Take(t, o, AfterHandshake(o))
           /\ token' = [token EXCEPT ![t] = IF o.kind = "ok" THEN o.val ELSE @]
           /\ prev' = IF o.kind = "ok" THEN prev \cup {<<cur[t], o.val>>} ELSE prev
    /\ UNCHANGED <<kind, sid, shared, stale, cur, calls, left, net, dec, din, dout, ja, jb, jraw, jplayers, jarr, jtmp>>

\* a Stat request that carries the session id without the mask
StatRequestUnmasked(k, s, tok) ==
    U16BE(MAGIC) \o <<STAT>> \o I32BE(s) \o I32BE(tok)
    \o (IF k = "short" THEN <<>> ELSE <<0, 0, 0, 0>>)

\* the Stat request of the query (lib.rs:186-199, 285-296)
StatRequest(k, s, tok) ==
    IF k = "short" THEN ShortStatRequest(s, tok) ELSE LongStatRequest(s, tok)

\* the send_to of the Stat request (lib.rs:199, 296)
SendStat(t) ==
    /\ pc[t] = "challenge"
    /\ LET pkt == StatRequest(kind[t], sid[t], token[t])
           n == Sent(t) + 1
       IN  \/ /\ pc' = [pc EXCEPT ![t] = "stat_sent"]
              /\ log' = [log EXCEPT ![t] = Append(@, SendEvent(cur[t], n, pkt, TRUE))]
              /\ net' = net \cup {Request(cur[t], n, pkt)}
              /\ result' = result
           \/ /\ pc' = [pc EXCEPT ![t] = "failed"]
              /\ log' = [log EXCEPT ![t] = Append(@, SendEvent(cur[t], n, pkt, FALSE))]
              /\ net' = net
              /\ result' = [result EXCEPT ![t] = Some(TransportError)]
    /\ UNCHANGED <<kind, sid, token, prev, shared, stale, cur, calls, left, inbox, dec, din, dout, ja, jb, jraw, jplayers, jarr, jtmp>>

\* the decoder of the query's stat step
DecodeStat(k, dg) == IF k = "short" THEN DecodeBasicStat(dg) ELSE DecodeFullStat(dg)

\* short_query and long_query from the recv of the stat step to the return
\* (lib.rs:202-258, 299-322)
RecvStat(t) ==
    /\ pc[t] = "stat_sent"
    /\ inbox # <<>>
    /\ LET o == DecodeStat(kind[t], Head(inbox).dg)
       IN  Take(t, o, AfterDecode(o))
    /\ UNCHANGED <<kind, sid, token, prev, shared, stale, cur, calls, left, net, dec, din, dout, ja, jb, jraw, jplayers, jarr, jtmp>>

\* socket.recv returns Err: the ? ends the call (lib.rs:136, 203, 300, 346)
RecvError(t) ==
    /\ pc[t] \in {"ping_sent", "hs_sent", "stat_sent"}
    /\ pc' = [pc EXCEPT ![t] = AfterRecvError(kind[t])]
    /\ result' = [result EXCEPT ![t] = Some(TransportError)]
    /\ log' = [log EXCEPT ![t] = Append(@, RecvErrorEvent)]
    /\ UNCHANGED <<kind, sid, token, prev, shared, stale, cur, calls, left, net, inbox, dec, din, dout, ja, jb, jraw, jplayers, jarr, jtmp>>

\* the environment: the server answers one request, and the answer reaches the socket
ServerReply ==
    /\ \E r \in net : \E d \in Replies(r.pkt) :
          /\ net' = net \ {r}
          /\ inbox' = Append(inbox, [dg |-> d, req |-> r.req])
    /\ UNCHANGED <<pc, kind, sid, token, result, log, prev, shared, stale, cur, calls, left,
                   dec, din, dout, ja, jb, jraw, jplayers, jarr, jtmp>>

Next ==
    \/ \E t \in Tasks : CallPing(t)
    \/ \E t \in Tasks : CallShort(t)
    \/ \E t \in Tasks : CallLong(t)
    \/ \E t \in Tasks : RecvPong(t)
    \/ \E t \in Tasks : RecvChallenge(t)
    \/ \E t \in Tasks : SendStat(t)
    \/ \E t \in Tasks : RecvStat(t)
    \/ \E t \in Tasks : RecvError(t)
    \/ ServerReply

Spec == Init /\ [][Next]_vars

SeqSpec == SeqInit /\ [][Next]_vars

\* the Client with two callers, when every send_to and every recv that a query awaits
\* returns in the end; whether the server ever answers is left open. RecvError is
\* enabled exactly while a recv is awaited, so its weak fairness says that no recv is
\* awaited for ever: it returns, with a datagram or else with an error.
LiveSpec ==
    /\ Init
    /\ [][Next]_vars
    /\ \A t \in Tasks : WF_vars(SendStat(t)) /\ WF_vars(RecvError(t))

(***************************************************************************)
(* The decoders on their own: a datagram is drawn from the bounded sets    *)
(* below and the decoder of one query is applied to it.                    *)
(***************************************************************************)
\* a datagram that fills a buffer of cap bytes: head, then the letter a to the end
Filled(head, cap) == [i \in 1..cap |-> IF i <= Len(head) THEN head[i] ELSE 97]

\* the text fields of a pong
MaxFields == 12

\* the names of a player section
MaxPlayers == 2

\* the sequences of at most n elements of S
SeqsUpTo(S, n) == UNION {[1..k -> S] : k \in 0..n}

\* the elements of ss, each followed by the byte x
RECURSIVE Terminated(_, _)
Terminated(ss, x) == IF ss = <<>> THEN <<>> ELSE Head(ss) \o <<x>> \o Terminated(Tail(ss), x)

\* the elements of ss with the byte x between them
Joined(ss, x) ==
    IF ss = <<>> THEN <<>> ELSE SubSeq(Terminated(ss, x), 1, Len(Terminated(ss, x)) - 1)

\* pong texts of n fields: a number field is 5 or x, the field 1 is MCPE, another is f
PongTexts(n) ==
    {Joined([i \in 1..n |-> IF i = 1 THEN <<77, 67, 80, 69>>
                            ELSE IF i = 3 THEN <<52, 50, 50>>
                            ELSE IF i = 5 THEN a
                            ELSE IF i = 6 THEN b
                            ELSE IF i = 9 THEN <<83, 117, 114, 118>>
                            ELSE IF i = 10 THEN <<49>>
                            ELSE IF i = 11 THEN <<49, 57, 49, 51, 50>>
                            ELSE IF i = 12 THEN <<49, 57, 49, 51, 51>>
                            ELSE <<102, 48 + (i % 10)>>], 59) :
        a \in {<<53>>, <<120>>}, b \in {<<50, 48>>, <<>>}}

PongInputs ==
    {PongPrefix \o t : t \in UNION {PongTexts(n) : n \in 0..MaxFields}}
    \cup {SubSeq(PongPrefix, 1, k) : k \in {0, 1, 33, 34}}
    \cup {Filled(PongReply7, PingBufCap)}

\* the tokens from -MaxToken to MaxToken
MaxToken == 12

\* the last decimal digit of -n, for n <= 0
LastDigit(n) == (10 - (n % 10)) % 10

\* the decimal digits of -n, for n <= 0
RECURSIVE NegDigits(_)
NegDigits(n) ==
    IF n > -10 THEN <<48 - n>>
    ELSE NegDigits((n + LastDigit(n)) \div 10) \o <<48 + LastDigit(n)>>

\* the ASCII-decimal text a server writes for the token n
Decimal(n) == IF n < 0 THEN <<45>> \o NegDigits(n) ELSE NegDigits(-n)

\* tokens: the small ones, and the ends of the i32 range
TokenSamples ==
    (-MaxToken..MaxToken)
    \cup {2147483647, -2147483647 - 1, 2147483646, -2147483647, 1000000000, -999999999,
          305419896, 99, -100}

\* a handshake response for the token n, with the session id echo e
TokenReply(e, n) == <<9>> \o e \o Decimal(n) \o <<0>>

ChallengeInputs ==
    {TokenReply(e, n) : e \in {<<0, 0, 0, 0>>, <<15, 15, 15, 15>>, <<255, 9, 0, 48>>},
                        n \in TokenSamples} \cup
    {<<ty, 0, 0, 0, 1>> \o text \o term :
        ty \in {HANDSHAKE, STAT},
        text \in {<<52, 50>>, <<45, 55>>, <<43, 53>>, <<120>>, <<>>, <<52, 255>>,
                  I32MaxDigits, I32MinDigits, <<45>> \o I32MinDigits},
        term \in {<<0>>, <<>>}}
    \cup {<<>>, <<HANDSHAKE>>, <<HANDSHAKE, 0, 0, 0, 0>>}
    \cup {Filled(HsReply(<<52, 50>>), TokenBufCap)}

\* the fields of Basic-Stat responses: strings empty or not, counts of one digit and
\* more, port bytes that are zero, equal, or differ in order
BasicFixtures ==
    [motd : {<<>>, <<65, 32, 98>>},
     gametype : {<<83, 77, 80>>},
     map : {<<119>>, <<>>},
     players : {0, 5, 120},
     max_players : {20},
     port : {<<74, 188>>, <<0, 0>>, <<0, 1>>, <<1, 0>>, <<255, 255>>},
     host_ip : {<<>>, <<49, 46, 50>>},
     echo : {<<0, 0, 0, 0>>, <<1, 15, 0, 255>>}]

\* the Basic-Stat response a server writes for the fields f
BasicEncode(f) ==
    <<0>> \o f.echo \o f.motd \o <<0>> \o f.gametype \o <<0>> \o f.map \o <<0>>
    \o Decimal(f.players) \o <<0>> \o Decimal(f.max_players) \o <<0>>
    \o f.port \o f.host_ip \o <<0>>

BasicInputs ==
    {BasicEncode(f) : f \in BasicFixtures} \cup
    {SubSeq(BasicReply, 1, k) : k \in 0..Len(BasicReply)}
    \cup {<<ty, 0, 0, 0, 0>> \o <<109, 0, 116, 0, 119, 0>> \o pl \o <<0>> \o mx \o <<0>>
            \o <<74, 188>> \o <<104, 0>> :
            ty \in {STAT, HANDSHAKE}, pl \in {<<53>>, <<120>>, <<>>}, mx \in {<<50, 48>>, <<45, 49>>}}

\* a Full-Stat response: the key/value section without the fields of skip, the marker
\* or not, the names with a null after each, and the bytes that end the datagram
FullInput(ty, skip, marker, names, tail) ==
    <<ty>> \o SubSeq(FullHeader, 2, Len(FullHeader)) \o KvSection(1, skip)
    \o (IF marker THEN PLAYER_KEY ELSE <<>>) \o Terminated(names, 0) \o tail

FullInputs ==
    {FullInput(STAT, skip, marker, names, tail) :
        skip \in {{}} \cup {{i} : i \in 1..Len(FullFields)},
        marker \in BOOLEAN,
        names \in SeqsUpTo({<<97>>, <<98, 99>>}, MaxPlayers),
        tail \in {<<>>, <<0>>, <<0, 0>>}}
    \cup {FullInput(HANDSHAKE, {}, TRUE, <<<<97>>>>, <<0>>), SubSeq(FullHeader, 1, 15),
          FullHeader, <<>>,
          FullHeader \o <<97, 0, 98, 0>>,
          FullInput(STAT, {}, FALSE, <<>>, SubSeq(PLAYER_KEY, 1, Len(PLAYER_KEY) - 1))}
    \cup {FullHeader \o KvSection(1, skip) \o extra \o PLAYER_KEY \o <<97, 0, 0, 0>> :
            skip \in {{}, {1}, {4}, {1, 4}},
            extra \in {<<>>, <<120, 0, 121, 0>>,
                       <<104, 111, 115, 116, 112, 111, 114, 116, 0, 55, 48, 48, 48, 48, 0>>,
                       <<110, 117, 109, 112, 108, 97, 121, 101, 114, 115, 0, 45, 49, 0>>}}
    \cup {Filled(FullHeader, StatBufCap)}

DecodeInit ==
    /\ Fresh
    /\ left = [t \in Tasks |-> 0]
    /\ dout = None
    /\ JoinIdle
    /\ \/ dec = "pong" /\ din \in PongInputs
       \/ dec = "challenge" /\ din \in ChallengeInputs
       \/ dec = "basic" /\ din \in BasicInputs
       \/ dec = "full" /\ din \in FullInputs

Decoded(o) ==
    dout' = Some(o) /\ UNCHANGED <<dec, din>> /\ UNCHANGED clientVars /\ UNCHANGED joinVars

\* lib.rs:134-158 on the datagram din
PongStep == dec = "pong" /\ dout = None /\ Decoded(DecodePong(din))

\* lib.rs:345-352 on the datagram din
ChallengeStep == dec = "challenge" /\ dout = None /\ Decoded(DecodeChallenge(din))

\* lib.rs:299-322 on the datagram din
BasicStep == dec = "basic" /\ dout = None /\ Decoded(DecodeBasicStat(din))

\* lib.rs:202-258 on the datagram din
FullStep == dec = "full" /\ dout = None /\ Decoded(DecodeFullStat(din))

DecodeNext == PongStep \/ ChallengeStep \/ BasicStep \/ FullStep

DecodeSpec == DecodeInit /\ [][DecodeNext]_vars

(***************************************************************************)
(* The two tasks of a Full-Stat decode (lib.rs:215-238), a step at a time. *)
(* A task gives way to the other only where it awaits: a at the lock of    *)
(* each insert, b at the lock before its extend.                           *)
(***************************************************************************)
\* responses that reach the tasks, and two whose strings are not UTF-8
JoinInputs ==
    {FullInput(STAT, skip, marker, names, tail) :
        skip \in {{}, {2}},
        marker \in BOOLEAN,
        names \in SeqsUpTo({<<97>>, <<98, 99>>}, MaxPlayers),
        tail \in {<<>>, <<0>>, <<0, 0>>}}
    \cup {FullInput(STAT, {}, TRUE, <<<<97>>, <<255>>>>, <<0>>),
          FullHeader \o KvSection(1, {3}) \o <<118, 255, 0, 118, 0>> \o PLAYER_KEY
              \o <<97, 0, 0>>}
    \cup {FullHeader \o KvSection(1, {}) \o extra \o rest :
            extra \in {<<109, 97, 112, 0, 119, 0>>, <<109, 97, 112, 0, 119, 0, 120, 0>>,
                       <<120, 0>>, <<109, 97, 112, 0, 119, 0, 109, 97, 112, 0, 121>>},
            rest \in {<<>>, PLAYER_KEY \o <<97, 0, 0, 0>>}}

\* a has returned Ok(()): ja counts its inserts, and one more for its return
JoinADone == jarr # None /\ ja = Len(jarr[1]) \div 2 + 1

\* a join that is over as soon as one of the two tasks has returned
JoinReadyEither == JoinADone \/ jb = "done"

\* try_join!(a(), b())? has both results (lib.rs:238)
JoinReady == JoinADone /\ jb = "done"

JoinInit ==
    /\ Fresh
    /\ left = [t \in Tasks |-> 0]
    /\ dec = "join"
    /\ din \in JoinInputs
    /\ dout = None
    /\ ja = 0
    /\ jb = "start"
    /\ jraw = <<>>
    /\ jplayers = <<>>
    /\ jarr = None
    /\ jtmp = None

\* the map after one more insert(k, v)
\* an insert that keeps the value a key already has
InsertKeepFirst(map, k, v) ==
    [x \in DOMAIN map \cup {k} |-> IF x \in DOMAIN map THEN map[x] ELSE v]

Insert(map, k, v) == [x \in DOMAIN map \cup {k} |-> IF x = k THEN v ELSE map[x]]

\* lib.rs:211-219: arr, the pieces of reg_data
KvPieces(data) == Pieces(data, KvArr(data, slice_index(data, PLAYER_KEY)))

\* task a up to its first lock (lib.rs:216-219)
JoinSplit ==
    /\ dec = "join" /\ dout = None
    /\ jarr = None
    /\ jarr' = Some(KvPieces(FullData(din)))
    /\ UNCHANGED <<dec, din, dout, ja, jb, jraw, jplayers, jtmp>>
    /\ UNCHANGED clientVars

\* task a: one turn of its loop (lib.rs:221-227), or a panic of its expects
JoinInsert ==
    /\ dec = "join" /\ dout = None
    /\ jarr # None
    /\ ja < Len(jarr[1]) \div 2
    /\ LET k == jarr[1][2 * ja + 1]
           v == jarr[1][2 * ja + 2]
       IN  IF ~Utf8Ok(k)
           THEN dout' = Some(Panic("Unable to decode key string")) /\ UNCHANGED <<ja, jraw>>
           ELSE IF ~Utf8Ok(v)
           THEN dout' = Some(Panic("Unable to decode value string")) /\ UNCHANGED <<ja, jraw>>
           ELSE dout' = dout /\ ja' = ja + 1 /\ jraw' = Insert(jraw, k, v)
    /\ UNCHANGED <<dec, din, jb, jplayers, jarr, jtmp>>
    /\ UNCHANGED clientVars

\* task a: Ok(()) after its loop (lib.rs:228)
JoinAReturn ==
    /\ dec = "join" /\ dout = None
    /\ jarr # None
    /\ ja = Len(jarr[1]) \div 2
    /\ ja' = ja + 1
    /\ UNCHANGED <<dec, din, dout, jb, jraw, jplayers, jarr, jtmp>>
    /\ UNCHANGED clientVars

\* task b up to its lock, on data with the marker at pi
JoinSliceOn(data, pi) ==
    IF pi = None THEN jb' = "done" /\ dout' = dout /\ jtmp' = jtmp
    ELSE IF ~(PlayerRange(data, pi)[1] <= PlayerRange(data, pi)[2]
              /\ PlayerRange(data, pi)[2] <= Len(data))
         THEN dout' = Some(SlicePanic) /\ jb' = jb /\ jtmp' = jtmp
         ELSE /\ dout' = dout
              /\ jb' = "locked"
              /\ jtmp' = Some(SubSeq(data, PlayerRange(data, pi)[1] + 1,
                                     PlayerRange(data, pi)[2]))

\* task b up to its lock (lib.rs:231-233): no marker and Ok(()), or tmp is sliced
JoinSlice ==
    /\ dec = "join" /\ dout = None
    /\ jb = "start"
    /\ JoinSliceOn(FullData(din), slice_index(FullData(din), PLAYER_KEY))
    /\ UNCHANGED <<dec, din, ja, jraw, jplayers, jarr>>
    /\ UNCHANGED clientVars

\* task b: the extend of players and Ok(()) (lib.rs:233-236)
JoinExtend ==
    /\ dec = "join" /\ dout = None
    /\ jb = "locked"
    /\ LET names == Split(jtmp[1], 0)
       IN  IF \E k \in 1..Len(names) : ~Utf8Ok(names[k])
           THEN dout' = Some(Panic("Failure decoding string!")) /\ UNCHANGED <<jb, jplayers>>
           ELSE jplayers' = names /\ jb' = "done" /\ dout' = dout
    /\ UNCHANGED <<dec, din, ja, jraw, jarr, jtmp>>
    /\ UNCHANGED clientVars

\* after try_join!: the record is built from raw_data and players (lib.rs:239-255)
JoinAssemble ==
    /\ dec = "join" /\ dout = None
    /\ JoinReady
    /\ dout' = Some(AssembleLong(jraw, jplayers))
    /\ UNCHANGED <<dec, din>>
    /\ UNCHANGED joinVars
    /\ UNCHANGED clientVars

JoinNext ==
    JoinSplit \/ JoinInsert \/ JoinAReturn \/ JoinSlice \/ JoinExtend \/ JoinAssemble

JoinSpec == JoinInit /\ [][JoinNext]_vars

(***************************************************************************)
(* The properties.                                                         *)
(***************************************************************************)
StatKinds == {"short", "long"}

\* a Stat request: the query magic and the type byte 0x00
IsStatRequest(e) ==
    e.op = "send" /\ e.pkt[1] = 254 /\ e.pkt[2] = 253 /\ e.pkt[3] = 0

\* a Handshake request: the query magic and the type byte 0x09
IsHandshakeRequest(e) ==
    e.op = "send" /\ e.pkt[1] = 254 /\ e.pkt[2] = 253 /\ e.pkt[3] = 9

\* the text of the token in a handshake response: offset 5 to the byte before the last
TokenText(dg) == FromUtf8Lossy(SubSeq(dg, 6, Len(dg) - 1))

\* a handshake response whose byte 0 is 0x09 and whose token parses
GoodChallenge(dg) ==
    Len(dg) >= 6 /\ dg[1] = 9 /\ ParseI32(TokenText(dg)).ok

\* the handshake step of the call of t has failed
HandshakeFailed(t) ==
    /\ kind[t] \in StatKinds
    /\ Len(log[t]) >= 1
    /\ \/ ~log[t][1].ok
       \/ Len(log[t]) >= 2 /\ (~log[t][2].ok \/ ~GoodChallenge(log[t][2].pkt))

SentStat(t) == \E i \in 1..Len(log[t]) : IsStatRequest(log[t][i])

\* C1: a call sends a Stat request only after it has received a handshake response
\* with byte 0 = 0x09 and a token that parses; a call whose handshake step failed
\* has ended and has sent no Stat request.
C1_StatOnlyAfterHandshake ==
    \A t \in Tasks :
        /\ \A i \in 1..Len(log[t]) :
              IsStatRequest(log[t][i]) =>
                  \E j \in 1..(i - 1) :
                      /\ log[t][j].op = "recv"
                      /\ log[t][j].ok
                      /\ GoodChallenge(log[t][j].pkt)
        /\ HandshakeFailed(t) => pc[t] \in {"failed", "panicked"} /\ ~SentStat(t)

\* one call has sent its Stat request, another has ended on a token that does not parse
C1_Witness ==
    \E t, u \in Tasks :
        /\ SentStat(t)
        /\ HandshakeFailed(u)
        /\ Len(log[u]) = 2 /\ log[u][2].ok /\ log[u][2].pkt[1] = 9

\* the i32 that four big-endian bytes denote
SignedBE(b) ==
    (IF b[1] >= 128 THEN b[1] - 256 ELSE b[1]) * 16777216 + b[2] * 65536 + b[3] * 256 + b[4]

\* C2: the Stat request of a call carries, big-endian, the token decoded from the
\* handshake response of that same call, and the masked session id of the call's
\* Handshake request (every byte of the session id reduced to its low nibble).
C2_StatEchoesToken ==
    \A t \in Tasks : \A i \in 1..Len(log[t]) :
        IsStatRequest(log[t][i]) =>
            /\ Len(log[t][i].pkt) = (IF kind[t] = "short" THEN 11 ELSE 15)
            /\ IsHandshakeRequest(log[t][1])
            /\ log[t][2].op = "recv"
            /\ SignedBE(SubSeq(log[t][i].pkt, 8, 11)) = ParseI32(TokenText(log[t][2].pkt)).val
            /\ SubSeq(log[t][i].pkt, 4, 7) = SubSeq(log[t][1].pkt, 4, 7)
            /\ SubSeq(log[t][i].pkt, 4, 7) = [k \in 1..4 |-> I32BE(sid[t])[k] % 16]

\* a call sends a Stat request whose token differs from the token of an earlier call
C2_Witness ==
    \E t \in Tasks : \E i \in 1..Len(log[t]) : \E e \in prev :
        /\ IsStatRequest(log[t][i])
        /\ log[t][i].ok
        /\ e[1] < cur[t]
        /\ e[2] # SignedBE(SubSeq(log[t][i].pkt, 8, 11))

\* C3: the sends and receives of a call alternate, one send then one receive for each
\* step: at most one step for raknet_ping, at most two for a stat query, the handshake
\* and then the stat; a send or receive that failed, or a response that did not
\* decode, is the last thing the call did.
C3_OneSendOneRecv ==
    \A t \in Tasks :
        /\ Len(log[t]) <= (IF kind[t] = "ping" THEN 2 ELSE 4)
        /\ \A i \in 1..Len(log[t]) :
              /\ log[t][i].op = (IF i % 2 = 1 THEN "send" ELSE "recv")
              /\ i < Len(log[t]) => log[t][i].ok
        /\ kind[t] \in StatKinds =>
              /\ Len(log[t]) >= 1 => IsHandshakeRequest(log[t][1])
              /\ Len(log[t]) >= 3 => GoodChallenge(log[t][2].pkt) /\ IsStatRequest(log[t][3])
        /\ pc[t] \in {"failed", "panicked"} =>
              \/ ~log[t][Len(log[t])].ok
              \/ log[t][Len(log[t])].op = "recv"

\* a stat query has done its two steps, another call has stopped at a failed receive
C3_Witness ==
    \E t, u \in Tasks :
        /\ kind[t] \in StatKinds /\ Len(log[t]) = 4 /\ pc[t] = "done"
        /\ pc[u] = "failed" /\ Len(log[u]) = 2 /\ ~log[u][2].ok

\* the call of t received, in its stat step, a datagram whose byte 0 is not 0x00
StatMismatch(t) ==
    /\ kind[t] \in StatKinds
    /\ Len(log[t]) = 4
    /\ log[t][4].ok
    /\ Len(log[t][4].pkt) >= 1
    /\ log[t][4].pkt[1] # 0

\* C4: a stat query whose stat response has a leading byte other than 0x00 ends with
\* the returned error "Unexpected packet ..." (InvalidData) and with no record.
C4_StatMismatchIsError ==
    \A t \in Tasks :
        StatMismatch(t) => pc[t] = "failed" /\ result[t] = Some(MismatchStat)

\* a short query and a long query have both received 0x09 in their stat step
C4_Witness ==
    \E t, u \in Tasks :
        /\ kind[t] = "short" /\ StatMismatch(t) /\ log[t][4].pkt[1] = 9
        /\ kind[u] = "long" /\ StatMismatch(u) /\ log[u][4].pkt[1] = 9

\* C5: a query that stops is Done or Failed: whatever the datagram it received, it
\* returned a record or an error to its caller (it never panics).
C5_NeverPanics == \A t \in Tasks : pc[t] # "panicked"

\* the payload of a Full-Stat response: the bytes of the datagram from offset 16 on
FullPayload(dg) == SubSeq(dg, 17, Len(dg))

\* the offsets of the payload at which the player-section marker stands
MarkerOffsets(dg) ==
    {i \in 0..(Len(dg) - FullStatOffset - Len(PLAYER_KEY)) :
        \A k \in 1..Len(PLAYER_KEY) : dg[FullStatOffset + i + k] = PLAYER_KEY[k]}

\* a Full-Stat response (byte 0 is 0x00) whose payload contains the marker
HasMarker(dg) == Len(dg) >= 1 /\ dg[1] = 0 /\ MarkerOffsets(dg) # {}

\* the offset p of the marker: the first one
MarkerAt(dg) == CHOOSE i \in MarkerOffsets(dg) : \A j \in MarkerOffsets(dg) : i <= j

\* C6: for a Full-Stat response with the marker at offset p of its payload, every key
\* and value of the map is a piece of the payload that ends at or before offset p, and
\* every name of the returned player list is a piece of the payload that starts after
\* the last byte of the marker; the strings of the record are the values of that map.
C6_NoCrossContamination ==
    (dec = "full" /\ dout # None /\ HasMarker(din)) =>
        LET data == FullData(din)
            p == MarkerAt(din)
            pi == slice_index(data, PLAYER_KEY)
            arr == KvArr(data, pi)
            sp == PlayerSpans(data, pi)
        IN  /\ pi = Some(p)
            /\ \A j \in 1..Len(arr) : arr[j][1] >= 0 /\ arr[j][2] <= p + 1
            /\ dout[1].kind = "ok" =>
                  /\ \A k \in 1..Len(sp) :
                        sp[k][1] >= p + Len(PLAYER_KEY) /\ sp[k][2] <= Len(FullPayload(din))
                  /\ dout[1].val.players = [k \in 1..Len(sp) |-> Piece(data, sp[k])]
                  /\ \A i \in 1..Len(FullFields) :
                        FullFields[i].parse = "none" =>
                            dout[1].val[FullFields[i].field] = KvMap(data, arr)[FullFields[i].key]

\* a response with the marker and two players has been decoded to a record
C6_Witness ==
    /\ dec = "full" /\ dout # None /\ HasMarker(din)
    /\ dout[1].kind = "ok"
    /\ Len(dout[1].val.players) = 2
    /\ dout[1].val.players[1] # <<>>

\* the pieces of ss that are not empty, in order
NonEmpty(ss) == SelectSeq(ss, LAMBDA x : x # <<>>)

\* the names of the player region of a response: the bytes after the marker up to the
\* two trailing bytes of the datagram, split on null, the empty pieces left out
RegionNames(dg) ==
    LET pl == FullPayload(dg)
    IN  NonEmpty(Split(SubSeq(pl, MarkerAt(dg) + Len(PLAYER_KEY) + 1, Len(pl) - 2), 0))

\* C7: for a Full-Stat response with the marker, followed by at least its two trailing
\* bytes, the returned player list is the sequence of the non-empty names of the player
\* region, in order; when the region holds no name the player list is decoded, empty.
C7_PlayersAreTheNames ==
    (/\ dec = "full" /\ dout # None /\ HasMarker(din)
     /\ Len(FullPayload(din)) >= MarkerAt(din) + Len(PLAYER_KEY) + 2) =>
        /\ dout[1].kind = "ok" => dout[1].val.players = RegionNames(din)
        /\ RegionNames(din) = <<>> =>
              PlayerList(FullData(din), slice_index(FullData(din), PLAYER_KEY)) = Ok(<<>>)

\* the fields of a Pong: the bytes of the datagram from offset 35 on, split on ';'
PongPayloadFields(dg) == Split(SubSeq(dg, 36, Len(dg)), 59)

\* C8: a returned Pong record of a payload of exactly 7 fields has game_mode = None,
\* motd = [field 1] and server_unique_id = field 6; one of a payload of 9 or more
\* fields has game_mode = Some(field 8) and motd = [field 1, field 7].
C8_PongFieldsExact ==
    (dec = "pong" /\ dout # None /\ Len(din) >= 35 /\ dout[1].kind = "ok") =>
        LET f == PongPayloadFields(din)
            r == dout[1].val
        IN  /\ Len(f) = 7 =>
                  r.game_mode = None /\ r.motd = <<f[2]>> /\ r.server_uid = f[7]
            /\ Len(f) >= 9 =>
                  r.game_mode = Some(f[9]) /\ r.motd = <<f[2], f[8]>>

\* long_query has decoded the map and the player list of the response
MapDecoded(dg) ==
    /\ IsStatLong(dg)
    /\ SliceOk(StatBufCap, FullStatOffset, RecvLen(dg, StatBufCap) + 1)
    /\ ~SliceIndexPanics(FullData(dg), PLAYER_KEY)
    /\ LET data == FullData(dg)
           pi == slice_index(data, PLAYER_KEY)
       IN  KvPanicFrom(data, KvArr(data, pi), 1) = None /\ PlayerList(data, pi).kind = "ok"

\* the required keys that the map of the response lacks
MissingKeys(dg) ==
    LET data == FullData(dg)
        map == KvMap(data, KvArr(data, slice_index(data, PLAYER_KEY)))
    IN  {i \in 1..Len(FullFields) : FullFields[i].key \notin DOMAIN map}

\* C9: when the map decoded from a Full-Stat response lacks a required key, long_query
\* returns an error to its caller, and the error names a key that is missing.
C9_MissingKeyIsNamedFailure ==
    (dec = "full" /\ dout # None /\ MapDecoded(din) /\ MissingKeys(din) # {}) =>
        /\ dout[1].kind = "err"
        /\ \E i \in MissingKeys(din) :
              dout[1].msg = "Failed to find " \o FullFields[i].name

\* every datagram the call of t has consumed answers the request the call sent just before
OwnReplies(t) ==
    \A i \in 1..Len(log[t]) :
        (log[t][i].op = "recv" /\ log[t][i].ok) =>
            i > 1 /\ log[t][i].req = log[t][i - 1].req

\* C10 as amended: a query during which no other query ran on the Client, and at whose
\* start no datagram of an earlier query was still on its way, consumes at each
\* receive the reply to the request it sent just before.
C10_AloneGetsOwnReply ==
    \A t \in Tasks : (~shared[t] /\ ~stale[t]) => OwnReplies(t)

\* cross-delivery: of two queries that ran concurrently on the Client, one has
\* consumed the datagram the server sent in reply to the other's request
C10_Witness ==
    \E t, u \in Tasks : \E i \in 1..Len(log[t]) :
        /\ t # u
        /\ shared[t] /\ ~stale[t] /\ ~stale[u]
        /\ log[t][i].op = "recv" /\ log[t][i].ok
        /\ log[t][i].req[1] = cur[u]

\* C10 as stated: a query during which no other query ran on the Client always
\* consumes the reply to its own preceding request.
C10_AsStated ==
    \A t \in Tasks : ~shared[t] => OwnReplies(t)

\* the map of the first n pairs of arr, inserted in order
MapAfter(data, arr, n) ==
    MapOf([j \in 1..n |-> Piece(data, arr[2 * j - 1])],
          [j \in 1..n |-> Piece(data, arr[2 * j])])

\* what the two tasks have written so far, and what is assembled from it
TasksAgree(data, pi, arr) ==
    /\ jraw = MapAfter(data, arr, IF ja > Len(arr) \div 2 THEN Len(arr) \div 2 ELSE ja)
    /\ jplayers = (IF jb = "done" /\ pi # None THEN PlayerList(data, pi).val ELSE <<>>)
    /\ (dout # None /\ dout[1].kind = "ok") =>
          /\ ja = Len(arr) \div 2 + 1 /\ jb = "done"
          /\ dout[1] = DecodeFullStat(din)
    /\ (dout # None /\ dout[1].kind = "panic") => DecodeFullStat(din).kind = "panic"

\* C11: in every interleaving of the two tasks of a Full-Stat decode, the map holds
\* what task a alone has inserted so far and the player list what task b alone has
\* written, whatever the other task has done; a record is assembled only when both
\* tasks have returned, and it is the record of the decode that runs a and then b.
C11_TasksIndependent ==
    dec = "join" =>
        TasksAgree(FullData(din), slice_index(FullData(din), PLAYER_KEY),
                   KvArr(FullData(din), slice_index(FullData(din), PLAYER_KEY)))

\* a record assembled from a map of at least twelve inserts and a list of two players
C11_Witness ==
    /\ dec = "join" /\ dout # None /\ dout[1].kind = "ok"
    /\ ja > 12
    /\ Len(jplayers) = 2

\* C12: a handshake response made of the byte 0x09, four bytes of any value, the
\* ASCII-decimal text of a 32-bit signed token T from offset 5 and one null byte
\* makes gen_challenge_token return exactly T.
C12_TokenRoundTrip ==
    (dec = "challenge" /\ dout # None) =>
        \A n \in TokenSamples :
            (/\ Len(din) = 6 + Len(Decimal(n))
             /\ din[1] = 9
             /\ SubSeq(din, 6, Len(din) - 1) = Decimal(n)
             /\ din[Len(din)] = 0) => dout[1] = Ok(n)

\* the response 09 ff 09 00 30 "-2147483648" 00 has been decoded
C12_Witness ==
    /\ dec = "challenge" /\ dout # None
    /\ din = <<9, 255, 9, 0, 48>> \o <<45>> \o I32MinDigits \o <<0>>
    /\ dout[1].kind = "ok"
    /\ dout[1].val < -2147483647

\* C13: for a Basic-Stat response made of the byte 0x00, four bytes, five
\* null-terminated ASCII strings from offset 5 (the fourth and the fifth decimal
\* numbers), two port bytes and one more null-terminated string, short_query returns
\* the four strings without their terminators, the two numbers, and
\* host_port = first port byte + 256 * second port byte.
C13_BasicStatExact ==
    (dec = "basic" /\ dout # None) =>
        \A f \in BasicFixtures :
            din = BasicEncode(f) =>
                dout[1] = Ok([motd |-> f.motd,
                              gametype |-> f.gametype,
                              map |-> f.map,
                              players |-> f.players,
                              max_players |-> f.max_players,
                              host_port |-> f.port[1] + 256 * f.port[2],
                              host_ip |-> f.host_ip])

\* a response with the port bytes 4A BC has been decoded, to the port 0xBC4A
C13_Witness ==
    /\ dec = "basic" /\ dout # None
    /\ \E f \in BasicFixtures : din = BasicEncode(f) /\ f.port = <<74, 188>> /\ f.players = 120
    /\ dout[1].kind = "ok"
    /\ dout[1].val.host_port = 48202

\* the states in which a query awaits a recv
Waiting == {"ping_sent", "hs_sent", "stat_sent"}

\* a step in which the waiting query of t moves or does anything is the return of its
\* recv: with the oldest datagram, taken from the socket, or with an error
RecvReturned(t) ==
    \/ /\ inbox # <<>>
       /\ inbox' = Tail(inbox)
       /\ log'[t] = Append(log[t], RecvEvent(Head(inbox)))
    \/ /\ inbox' = inbox
       /\ log'[t] = Append(log[t], RecvErrorEvent)

EvenTokens(region) ==
    SubSeq(Split(region, 0), 1, 2 * (Len(Split(region, 0)) \div 2))

\* the reference pairing of tokens: t(2i) maps to t(2i+1), a later pair overrides
PairMap(toks) ==
    [k \in {toks[2 * i - 1] : i \in 1..(Len(toks) \div 2)} |->
        toks[2 * (CHOOSE i \in 1..(Len(toks) \div 2) :
                    /\ toks[2 * i - 1] = k
                    /\ \A h \in 1..(Len(toks) \div 2) : h > i => toks[2 * h - 1] # k)]]

\* the map has every key long_query reads, with numbers where it parses them
HasAllKeys(map) ==
    \A i \in 1..Len(FullFields) :
        /\ FullFields[i].key \in DOMAIN map
        /\ FullFields[i].parse = "usize" => ParseUsize(map[FullFields[i].key]).ok
        /\ FullFields[i].parse = "u16" => ParseU16(map[FullFields[i].key]).ok

\* C15: for a Full-Stat response whose payload from offset 16 does not contain the
\* marker, however short the payload, the search for the marker ends without a
\* failure, and when the pairing of the whole payload has every required key,
\* long_query returns a record with an empty player list.
C15_NoMarkerIsEmptyList ==
    (dec = "full" /\ dout # None /\ Len(din) >= 16 /\ din[1] = 0 /\ MarkerOffsets(din) = {}) =>
        /\ dout[1] # OverflowPanic
        /\ HasAllKeys(PairMap(EvenTokens(FullPayload(din)))) =>
              dout[1].kind = "ok" /\ dout[1].val.players = <<>>

\* the key/value region of data, reg_data
KvRegion(data, pi) == SubSeq(data, 1, RegEnd(data, pi))

\* raw_data against the reference pairing of even, the region's tokens without the
\* final one of an odd number: after ja turns it is the pairing of the first ja pairs
PairingHolds(even) ==
    /\ jraw = PairMap(SubSeq(even, 1, 2 * Min(ja, Len(even) \div 2)))
    /\ (dout # None /\ dout[1] \in {Panic("Unable to decode key string"),
                                    Panic("Unable to decode value string")})
          => \E i \in 1..Len(even) : ~Utf8Ok(even[i])

\* C16: for every key/value region whose paired tokens are text, the map task a has
\* built when it returns is the reference pairing of the region's null-delimited
\* tokens, the final token dropped when their number is odd and a later pair
\* overriding an earlier one of the same key; task a fails only on a token that is
\* not UTF-8, never on an odd number of tokens.
C16_PairingIsReference ==
    (dec = "join" /\ jarr # None) =>
        PairingHolds(EvenTokens(KvRegion(FullData(din), slice_index(FullData(din), PLAYER_KEY))))

\* a region with an odd number of tokens and a key given twice, paired to the end
C16_Witness ==
    /\ dec = "join" /\ JoinADone /\ dout = None
    /\ <<109, 97, 112>> \in DOMAIN jraw /\ jraw[<<109, 97, 112>>] = <<121>>
    /\ Len(Split(KvRegion(FullData(din), slice_index(FullData(din), PLAYER_KEY)), 0)) % 2 = 1

\* the low nibbles of the four bytes of s, most significant byte first
MaskedSid(s) ==
    << ((s \div 16777216) % 256) % 16, ((s \div 65536) % 256) % 16,
       ((s \div 256) % 256) % 16, (s % 256) % 16 >>

\* the sends of a Handshake-and-Stat call of task t
QuerySends(t) == SelectSeq(log[t], LAMBDA e : e.op = "send")

\* C17: the Handshake request is exactly the 7 bytes FE FD 09 and the four bytes of
\* sid & 0x0F0F0F0F, big-endian; the Stat request of short_query is exactly the 11
\* bytes FE FD 00, the same four bytes and the challenge token as 4 bytes big-endian;
\* the Stat request of long_query is those 11 bytes followed by exactly 4 zero bytes.
C17_RequestBytesExact ==
    \A t \in Tasks : kind[t] \in StatKinds =>
        /\ Len(QuerySends(t)) <= 2
        /\ Len(QuerySends(t)) >= 1 =>
              QuerySends(t)[1].pkt = <<254, 253, 9>> \o MaskedSid(sid[t])
        /\ Len(QuerySends(t)) = 2 =>
              /\ SubSeq(QuerySends(t)[2].pkt, 1, 7) = <<254, 253, 0>> \o MaskedSid(sid[t])
              /\ Len(QuerySends(t)[2].pkt) >= 11
              /\ SignedBE(SubSeq(QuerySends(t)[2].pkt, 8, 11)) = token[t]
              /\ kind[t] = "short" => Len(QuerySends(t)[2].pkt) = 11
              /\ kind[t] = "long" => /\ Len(QuerySends(t)[2].pkt) = 15
                                     /\ SubSeq(QuerySends(t)[2].pkt, 12, 15) = <<0, 0, 0, 0>>

\* a short and a long query have both sent their Stat request, one of them with a
\* session id that the mask changes and a token that is not zero
C17_Witness ==
    \E t, u \in Tasks :
        /\ kind[t] = "short" /\ kind[u] = "long"
        /\ Len(QuerySends(t)) = 2 /\ Len(QuerySends(u)) = 2
        /\ I32BE(sid[u]) # MaskedSid(sid[u])
        /\ token[u] # 0

\* C18: every record raknet_ping returns comes from a payload of exactly 7 or of at
\* least 9 fields between semicolons (fewer than 7, or exactly 8, give no record),
\* and has game_mode_integer, port and port_v6 absent, whatever the payload carries
\* after field 8.
C18_RecordOnlyFrom7Or9 ==
    (dec = "pong" /\ dout # None /\ dout[1].kind = "ok") =>
        /\ Len(PongPayloadFields(din)) = 7 \/ Len(PongPayloadFields(din)) >= 9
        /\ dout[1].val.game_mode_integer = None
        /\ dout[1].val.port = None
        /\ dout[1].val.port_v6 = None

\* a record of a payload that carries a game mode number and the two ports
C18_Witness ==
    /\ dec = "pong" /\ dout # None /\ dout[1].kind = "ok"
    /\ Len(PongPayloadFields(din)) = 12
    /\ PongPayloadFields(din)[11] = <<49, 57, 49, 51, 50>>
    /\ dout[1].val.port = None

\* the ten field names of GS4
GS4Names ==
    {"hostname", "gametype", "game_id", "version", "plugins", "map", "numplayers",
     "maxplayers", "hostport", "hostip"}

\* the map has the keys of names, with numbers of the field's type where one is parsed
HasKeys(map, names) ==
    \A i \in 1..Len(FullFields) : FullFields[i].name \in names =>
        /\ FullFields[i].key \in DOMAIN map
        /\ FullFields[i].parse = "usize" => ParseUsize(map[FullFields[i].key]).ok
        /\ FullFields[i].parse = "u16" => ParseU16(map[FullFields[i].key]).ok

\* the map long_query has decoded from the response
DecodedMap(data) == KvMap(data, KvArr(data, slice_index(data, PLAYER_KEY)))

Echoes == {I32BE(SidMask(SidStream[i])) : i \in 1..Len(SidStream)}
          \cup {<<0, 0, 0, 0>>, <<255, 9, 0, 48>>}

\* the response dg with e in its bytes 1..4
WithEcho(dg, e) == IF Len(dg) < 5 THEN dg ELSE <<dg[1]>> \o e \o SubSeq(dg, 6, Len(dg))

\* C20: the session id echoed in a response (bytes 1..4) is never compared with the
\* session id of the query: a handshake or stat response decodes to the same token,
\* record or failure as the response that differs from it only in bytes 1..4, whatever
\* session id the query has, so a token issued for another session id and a stat
\* response addressed to another session are accepted.
C20_EchoNeverCompared ==
    (dout # None /\ dec \in {"challenge", "basic", "full"}) =>
        \A e \in Echoes :
            dout[1] = (IF dec = "challenge" THEN DecodeChallenge(WithEcho(din, e))
                       ELSE IF dec = "basic" THEN DecodeBasicStat(WithEcho(din, e))
                       ELSE DecodeFullStat(WithEcho(din, e)))

\* a token decoded from a handshake response whose echo is the masked session id of
\* no query: one of its bytes is above 0x0F
C20_Witness ==
    /\ dec = "challenge" /\ dout # None /\ dout[1].kind = "ok"
    /\ Len(din) > 5
    /\ \E i \in 2..5 : din[i] > 15
    /\ \A i \in 1..Len(SidStream) : SubSeq(din, 2, 5) # I32BE(SidMask(SidStream[i]))

\* lib.rs:138, &buf[offline_msg_data.len()+19..=len]: the bytes raknet_ping decodes
PongText(dg) ==
    BufSlice(dg, PingBufCap, PongOffset, PongSliceEnd(RecvLen(dg, PingBufCap)))

\* lib.rs:303, &buf[5..len]: the bytes short_query decodes
BasicBody(dg) == BufSlice(dg, StatBufCap, BodyOffset, RecvLen(dg, StatBufCap))

\* a slice of n bytes from the offset from holds only bytes below len
Received(from, n, len) == n > 0 => from + n <= len

\* C21: for a received datagram of length len, each decoder takes from the receive
\* buffer only bytes at indices below len: the slice it decodes ends at or before
\* len, and a datagram that fills the buffer does not make the slice expression
\* index past the buffer's end.
C21_OnlyReceivedBytes ==
    dout # None =>
        /\ dec = "pong" =>
              /\ Len(din) >= PingBufCap => dout[1] # SlicePanic
              /\ dout[1] # SlicePanic =>
                    Received(PongOffset, Len(PongText(din)), RecvLen(din, PingBufCap))
        /\ dec = "full" =>
              /\ Len(din) >= StatBufCap => dout[1] # SlicePanic
              /\ dout[1] \notin {SlicePanic, MismatchStat} =>
                    Received(FullStatOffset, Len(FullData(din)), RecvLen(din, StatBufCap))
        /\ dec = "basic" =>
              /\ Len(din) >= StatBufCap => dout[1] # SlicePanic
              /\ dout[1] \notin {SlicePanic, MismatchStat} =>
                    Received(BodyOffset, Len(BasicBody(din)), RecvLen(din, StatBufCap))
        /\ dec = "challenge" =>
              /\ Len(din) >= TokenBufCap => dout[1] # SlicePanic
              /\ dout[1] \notin {SlicePanic, OverflowPanic, MismatchHandshake} =>
                    Received(BodyOffset, Len(ChallengeText(din)), RecvLen(din, TokenBufCap))

====
